---- MODULE Spec2Model ----
(***************************************************************************)
(* Job lifecycle of the image generation platform: the TypeScript submit   *)
(* and get handlers, the DynamoDB service wrapper, the SageMaker service   *)
(* wrapper and the SNS callback handler, sharing one Job Store (the jobs   *)
(* table), the inference output bucket and the public images bucket.       *)
(***************************************************************************)
EXTENDS Integers, Sequences, FiniteSets, TLC

(***************************************************************************)
(* Bounds                                                                  *)
(***************************************************************************)
\* the clock (Date.now / new Date()) takes the values 0..MaxTime
MaxTime == 1
\* number of SNS records in one callback event
MaxRecords == 2
\* number of submit requests served
MaxSubmits == 2
\* number of callback events delivered
MaxEvents == 1
\* the same three, for the specifications that include get or notifications
\* for any job id
GetRecords == 1
GetSubmits == 1
GetEvents == 1

(***************************************************************************)
(* Value sets                                                              *)
(***************************************************************************)
\* identifiers ulid() returns; a repeated submit generates the same
\* identifier again, which is the simulated collision
JobIds == {"j1"}
Users == {"alice", "bob"}
\* running invocations of the submit Lambda
Handlers == {"h1"}

Absent == "absent"
NoTime == -1

Fields == {"jobId", "userId", "status", "createdAt", "updatedAt", "completedAt",
           "inputParams", "mode", "ttl", "error", "imageUrl", "outputKey", "metadata",
           "result"}
TimeFields == {"createdAt", "updatedAt", "completedAt", "ttl"}

\* JobStatus
PENDING == "PENDING"
RUNNING == "RUNNING"
SUCCEEDED == "SUCCEEDED"
FAILED == "FAILED"
Terminal == {SUCCEEDED, FAILED}

\* the key of the table with no item stored under it
NoItem == [f \in Fields |-> IF f \in TimeFields THEN NoTime ELSE Absent]

\* 7 days TTL, in days
TtlDays == 7

VARIABLES
  now,        \* the clock
  jobs,       \* the jobs table: job id -> item (NoItem when there is none)
  images,     \* keys of the objects in the public images bucket
  staged,     \* job ids whose input.json is in the inference input bucket
  invoked,    \* job id -> number of InvokeEndpoint(Async) commands sent for it
  dispatched, \* job ids the worker pool accepted asynchronously
  sub,        \* submit handler invocations: handler -> local state
  cb,         \* the callback handler invocation
  getResp,    \* response of the last get request
  budget,     \* submit requests and callback events still to come, and the
              \* largest number of records of an event
  probe       \* the arguments and the result of a function applied on its own

vars == <<now, jobs, images, staged, invoked, dispatched, sub, cb, getResp, budget, probe>>

(***************************************************************************)
(* DynamoDB: conditions and update expressions                             *)
(***************************************************************************)
attribute_exists(item) == item.jobId # Absent

\* SET of the listed attributes on the item under the key; UpdateItem creates
\* the item (key attribute only) when there is none
UpdateItem(item, key, sets) ==
  [f \in Fields |-> IF f \in DOMAIN sets THEN sets[f]
                    ELSE IF f = "jobId" THEN key
                    ELSE item[f]]

\* ConditionExpression of createJob's PutItem
createJobCondition_Overwrite(item) == TRUE

createJobCondition(item) == ~attribute_exists(item)

\* ConditionExpression of updateJobStatus's UpdateItem
updateJobStatusCondition(item) == attribute_exists(item)

\* the attributes updateJobStatus sets
updateJobStatusSets_DropUpdates(status, updates, t) ==
  [f \in {"status", "updatedAt"}
         \cup (IF status = SUCCEEDED \/ status = FAILED THEN {"completedAt"} ELSE {}) |->
     IF f = "status" THEN status ELSE t]

updateJobStatusSets_KeepStatus(status, updates, t) ==
  [f \in {"updatedAt"}
         \cup (IF status = SUCCEEDED \/ status = FAILED THEN {"completedAt"} ELSE {})
         \cup {k \in DOMAIN updates : updates[k] # Absent /\ k \notin {"jobId", "status", "updatedAt"}} |->
     IF f \in {"updatedAt", "completedAt"} THEN t
     ELSE updates[f]]

updateJobStatusSets(status, updates, t) ==
  [f \in {"status", "updatedAt"}
         \cup (IF status = SUCCEEDED \/ status = FAILED THEN {"completedAt"} ELSE {})
         \cup {k \in DOMAIN updates : updates[k] # Absent /\ k \notin {"jobId", "status", "updatedAt"}} |->
     IF f = "status" THEN status
     ELSE IF f \in {"updatedAt", "completedAt"} THEN t
     ELSE updates[f]]

\* the error updateJobStatus throws when its command fails: outcome of the
\* command is "ok", "ConditionalCheckFailedException" or "fault"
updateJobStatusError(outcome) ==
  IF outcome = "ConditionalCheckFailedException"
  THEN [name |-> "NotFoundError", message |-> "Job not found"]
  ELSE [name |-> "InternalError", message |-> "Failed to update job status"]

NoError == [name |-> "none", message |-> Absent]

\* the default value of updateJobStatus's parameter updates: {}
NoUpdates == [k \in {} |-> Absent]

(***************************************************************************)
(* utils/response.ts                                                       *)
(***************************************************************************)
errorResponse(error) ==
  IF error.name = "ValidationError" THEN 400
  ELSE IF error.name = "UnauthorizedError" THEN 403
  ELSE IF error.name = "NotFoundError" THEN 404
  ELSE 500

\* the error label and the message of the body errorResponse writes (NODE_ENV
\* is not development)
errorResponseBody(error) ==
  IF error.name = "ValidationError" THEN [error |-> "Validation failed", message |-> error.message]
  ELSE IF error.name = "UnauthorizedError" THEN [error |-> "Access denied", message |-> error.message]
  ELSE IF error.name = "NotFoundError" THEN [error |-> "Not found", message |-> error.message]
  ELSE [error |-> "Internal server error", message |-> "An unexpected error occurred"]

(***************************************************************************)
(* utils/auth.ts                                                           *)
(***************************************************************************)
\* claims: "none" or a record [sub, admin]
NoClaims == [sub |-> Absent, admin |-> FALSE]
Claims == {NoClaims} \cup [sub : Users, admin : BOOLEAN]

\* the error extractUserContext throws, NoError when it returns a context
extractUserContext_AcceptAll(claims) == NoError

extractUserContext(claims) ==
  IF claims.sub = Absent
  THEN [name |-> "UnauthorizedError", message |-> "Invalid authentication"]
  ELSE NoError

validateResourceAccess_AllowAll(claims, resourceUserId) == NoError

validateResourceAccess(claims, resourceUserId) ==
  IF claims.admin THEN NoError
  ELSE IF claims.sub # resourceUserId
  THEN [name |-> "UnauthorizedError", message |-> "Access denied to this resource"]
  ELSE NoError

(***************************************************************************)
(* services/sagemaker.ts                                                   *)
(***************************************************************************)
\* outcomes of InvokeEndpointAsync as invokeAsync sees them: an output
\* location, a command that fails, or an accepted command whose response
\* carries no OutputLocation
AsyncOutcomes == {"ok", "rejected", "noOutputLocation"}

\* outcomes of InvokeEndpoint as invokeSync sees them: a response, a command
\* that fails with a worker error, a command that fails because a timeout
\* elapsed, and a command that never settles (no timeout is set on the
\* client; the Lambda is terminated at its own timeout, without a response)
SyncOutcomes == {"ok", "error", "timeout", "noResponse"}

\* the error invokeAsync throws (every failure is wrapped)
invokeAsyncError == [name |-> "InternalError", message |-> "Failed to start inference"]

\* the error invokeSync throws (every failure is wrapped)
invokeSyncError == [name |-> "InternalError", message |-> "Failed to complete inference"]

\* the counter of commands sent per job id stops at this value
InvokeCap == 2

CountInvoke(id) ==
  [invoked EXCEPT ![id] = IF @ < InvokeCap THEN @ + 1 ELSE @]

(***************************************************************************)
(* handlers/submit-job.ts                                                  *)
(***************************************************************************)
Methods == {"POST", "OPTIONS"}
\* request bodies by what parsing and validation make of them
Bodies == {"missing", "badjson", "invalid", "valid"}
Modes == {"sync", "async"}

\* the response: status code and, of the body, status, jobId, the inline
\* result, estimatedWaitTime, and the error label and message
NoResp == [code |-> 0, status |-> Absent, jobId |-> Absent, result |-> Absent,
           estimatedWaitTime |-> Absent, error |-> Absent, message |-> Absent,
           details |-> Absent]

\* an invocation: where it is, the request it serves (whether it carries
\* claims with a user id, and its body), the job id generated, the mode, the
\* error caught, how invokeSync ended, whether the worker pool was at its
\* concurrency limit when the invocation was sent, and what the catch block
\* did
SubIdle == [pc |-> "idle", authed |-> FALSE, body |-> Absent,
            jobId |-> Absent, mode |-> Absent, error |-> NoError,
            invokeFailed |-> FALSE, cause |-> Absent, poolFull |-> FALSE,
            failedAttempts |-> 0, failedWriteOk |-> FALSE,
            created |-> FALSE, resp |-> NoResp]

\* the ValidationError the handler throws for a body, NoError for a valid one
bodyError_AcceptInvalid(body) ==
  IF body = "missing" THEN [name |-> "ValidationError", message |-> "Request body is required"]
  ELSE IF body = "badjson" THEN [name |-> "ValidationError", message |-> "Invalid JSON in request body"]
  ELSE NoError

bodyError(body) ==
  IF body = "missing" THEN [name |-> "ValidationError", message |-> "Request body is required"]
  ELSE IF body = "badjson" THEN [name |-> "ValidationError", message |-> "Invalid JSON in request body"]
  ELSE IF body = "invalid" THEN [name |-> "ValidationError", message |-> "Invalid request parameters"]
  ELSE NoError

\* the item the handler builds for a validated request
jobItem(jobId, userId, mode, t) ==
  [NoItem EXCEPT !.jobId = jobId, !.userId = userId, !.status = PENDING,
                 !.createdAt = t, !.updatedAt = t, !.inputParams = "params",
                 !.mode = mode, !.ttl = t + TtlDays]

Fail(h, error) ==
  [sub EXCEPT ![h].pc = "done", ![h].error = error,
              ![h].resp = [NoResp EXCEPT !.code = errorResponse(error),
                                         !.error = errorResponseBody(error).error,
                                         !.message = errorResponseBody(error).message]]

\* the 200 response of the sync mode
syncResponse(jobId) ==
  [NoResp EXCEPT !.code = 200, !.status = SUCCEEDED, !.jobId = jobId,
                 !.result = "generated_image"]

\* the 202 response of the async mode
asyncResponse_Running(jobId) ==
  [NoResp EXCEPT !.code = 202, !.status = RUNNING, !.jobId = jobId,
                 !.estimatedWaitTime = "60-120 seconds"]

asyncResponse(jobId) ==
  [NoResp EXCEPT !.code = 202, !.status = PENDING, !.jobId = jobId,
                 !.estimatedWaitTime = "60-120 seconds"]

\* outcomes of a conditional write, given whether its condition holds
DbOutcomes(cond) == IF cond THEN {"ok", "fault"} ELSE {"ConditionalCheckFailedException", "fault"}

\* from the request to the end of createJob
SubmitStart(h) ==
  /\ sub[h].pc = "idle"
  /\ budget.submit > 0
  /\ \E method \in Methods, claims \in Claims, body \in Bodies, mode \in Modes, id \in JobIds :
       IF method = "OPTIONS"
       THEN /\ sub' = [sub EXCEPT ![h].pc = "done", ![h].resp = [NoResp EXCEPT !.code = 200]]
            /\ UNCHANGED jobs
       ELSE IF extractUserContext(claims) # NoError
       THEN /\ sub' = [Fail(h, extractUserContext(claims)) EXCEPT ![h].body = body]
            /\ UNCHANGED jobs
       ELSE IF bodyError(body) # NoError
       THEN /\ sub' = [Fail(h, bodyError(body)) EXCEPT ![h].authed = claims.sub # Absent,
                                                       ![h].body = body]
            /\ UNCHANGED jobs
       ELSE \E outcome \in DbOutcomes(createJobCondition(jobs[id])) :
              IF outcome = "ok"
              THEN /\ jobs' = [jobs EXCEPT ![id] = jobItem(id, claims.sub, mode, now)]
                   /\ sub' = [sub EXCEPT ![h].pc = "dispatch", ![h].jobId = id,
                                         ![h].authed = claims.sub # Absent,
                                         ![h].body = body,
                                         ![h].mode = mode, ![h].created = TRUE]
              ELSE /\ UNCHANGED jobs
                   /\ sub' = [Fail(h, [name |-> "InternalError", message |-> "Failed to create job"])
                                EXCEPT ![h].jobId = id, ![h].mode = mode,
                                       ![h].authed = claims.sub # Absent,
                                       ![h].body = body]
  /\ budget' = [budget EXCEPT !.submit = @ - 1]
  /\ UNCHANGED <<now, images, staged, invoked, dispatched, cb, getResp, probe>>

\* sync mode: sagemakerService.invokeSync
SubmitInvokeSync(h) ==
  /\ sub[h].pc = "dispatch"
  /\ sub[h].mode = "sync"
  /\ invoked' = CountInvoke(sub[h].jobId)
  \* the command is sent whatever the load of the worker pool is
  /\ \E outcome \in SyncOutcomes, full \in BOOLEAN :
       sub' = IF outcome = "ok"
              THEN [sub EXCEPT ![h].pc = "updateSucceeded", ![h].poolFull = full]
              ELSE IF outcome = "noResponse"
              THEN [sub EXCEPT ![h].pc = "done", ![h].cause = outcome, ![h].poolFull = full]
              ELSE [sub EXCEPT ![h].pc = "catch", ![h].error = invokeSyncError,
                               ![h].invokeFailed = TRUE, ![h].cause = outcome,
                               ![h].poolFull = full]
  /\ UNCHANGED <<now, jobs, images, staged, dispatched, cb, getResp, budget, probe>>

\* sync mode: updateJobStatus(jobId, SUCCEEDED, {metadata}) and the 200 response
SubmitUpdateSucceeded(h) ==
  /\ sub[h].pc = "updateSucceeded"
  /\ LET id == sub[h].jobId IN
     \E outcome \in DbOutcomes(updateJobStatusCondition(jobs[id])) :
       IF outcome = "ok"
       THEN /\ jobs' = [jobs EXCEPT ![id] = UpdateItem(@, id,
                          updateJobStatusSets(SUCCEEDED, [metadata |-> "sync-metadata"], now))]
            /\ sub' = [sub EXCEPT ![h].pc = "done",
                                  ![h].resp = syncResponse(id)]
       ELSE /\ UNCHANGED jobs
            /\ sub' = [sub EXCEPT ![h].pc = "catch", ![h].error = updateJobStatusError(outcome)]
  /\ UNCHANGED <<now, images, staged, invoked, dispatched, cb, getResp, budget, probe>>

\* async mode, invokeAsync: the input is uploaded to the input bucket
SubmitStage_IgnoreFailure(h) ==
  /\ sub[h].pc = "dispatch"
  /\ sub[h].mode = "async"
  /\ \E ok \in BOOLEAN :
       /\ staged' = IF ok THEN staged \cup {sub[h].jobId} ELSE staged
       /\ sub' = [sub EXCEPT ![h].pc = "invokeAsync"]
  /\ UNCHANGED <<now, jobs, images, invoked, dispatched, cb, getResp, budget, probe>>

SubmitStage(h) ==
  /\ sub[h].pc = "dispatch"
  /\ sub[h].mode = "async"
  /\ \E ok \in BOOLEAN :
       IF ok
       THEN /\ staged' = staged \cup {sub[h].jobId}
            /\ sub' = [sub EXCEPT ![h].pc = "invokeAsync"]
       ELSE /\ UNCHANGED staged
            /\ sub' = [sub EXCEPT ![h].pc = "catch", ![h].error = invokeAsyncError,
                                  ![h].invokeFailed = TRUE]
  /\ UNCHANGED <<now, jobs, images, invoked, dispatched, cb, getResp, budget, probe>>

\* async mode, invokeAsync: InvokeEndpointAsync with InferenceId = jobId
SubmitInvokeAsync(h) ==
  /\ sub[h].pc = "invokeAsync"
  /\ invoked' = CountInvoke(sub[h].jobId)
  \* the command is sent whatever the load of the worker pool is
  /\ \E outcome \in AsyncOutcomes, full \in BOOLEAN :
       /\ dispatched' = IF outcome = "rejected" THEN dispatched
                        ELSE dispatched \cup {sub[h].jobId}
       /\ sub' = IF outcome = "ok"
                 THEN [sub EXCEPT ![h].pc = "updateRunning", ![h].poolFull = full]
                 ELSE [sub EXCEPT ![h].pc = "catch", ![h].error = invokeAsyncError,
                                  ![h].invokeFailed = TRUE, ![h].poolFull = full]
  /\ UNCHANGED <<now, jobs, images, staged, cb, getResp, budget, probe>>

\* async mode: updateJobStatus(jobId, RUNNING) and the 202 response
SubmitUpdateRunning(h) ==
  /\ sub[h].pc = "updateRunning"
  /\ LET id == sub[h].jobId IN
     \E outcome \in DbOutcomes(updateJobStatusCondition(jobs[id])) :
       IF outcome = "ok"
       THEN /\ jobs' = [jobs EXCEPT ![id] = UpdateItem(@, id,
                          updateJobStatusSets(RUNNING, NoUpdates, now))]
            /\ sub' = [sub EXCEPT ![h].pc = "done",
                                  ![h].resp = asyncResponse(id)]
       ELSE /\ UNCHANGED jobs
            /\ sub' = [sub EXCEPT ![h].pc = "catch", ![h].error = updateJobStatusError(outcome)]
  /\ UNCHANGED <<now, images, staged, invoked, dispatched, cb, getResp, budget, probe>>

\* the catch block of either mode: updateJobStatus(jobId, FAILED, {error}),
\* then the error is rethrown to the outer catch, which answers errorResponse
SubmitCatch(h) ==
  /\ sub[h].pc = "catch"
  /\ LET id == sub[h].jobId IN
     \E outcome \in DbOutcomes(updateJobStatusCondition(jobs[id])) :
       IF outcome = "ok"
       THEN /\ jobs' = [jobs EXCEPT ![id] = UpdateItem(@, id,
                          updateJobStatusSets(FAILED, [error |-> sub[h].error.message], now))]
            /\ sub' = [Fail(h, sub[h].error) EXCEPT ![h].failedAttempts = @ + 1,
                                                    ![h].failedWriteOk = TRUE]
       ELSE /\ UNCHANGED jobs
            /\ sub' = [Fail(h, updateJobStatusError(outcome)) EXCEPT ![h].failedAttempts = @ + 1]
  /\ UNCHANGED <<now, images, staged, invoked, dispatched, cb, getResp, budget, probe>>

\* the invocation ends; the Lambda serves the next request
SubmitReturn(h) ==
  /\ sub[h].pc = "done"
  /\ sub' = [sub EXCEPT ![h] = SubIdle]
  /\ UNCHANGED <<now, jobs, images, staged, invoked, dispatched, cb, getResp, budget, probe>>

(***************************************************************************)
(* The callback handler (SNS success and error topics)                     *)
(***************************************************************************)
\* output locations a notification can carry, and the objects of the
\* inference output bucket under each of them
Locs == {"not-an-s3-uri", "s3://out/a.out", "s3://out/b.out"}

OutputBucket(loc) ==
  IF loc = "s3://out/a.out" THEN {"/output.png", "/output.json"}
  ELSE {}

\* parseS3Uri: TRUE when the URI matches s3://bucket/key
parseS3Uri(loc) == loc # "not-an-s3-uri"

\* the candidate keys of processSuccess, relative to the output key, in the
\* order they are tried
possibleImageKeys ==
  <<"/generated_image.png", "/output.png", "/image.png", "/result.png", "-.out.png", "/0.png">>

\* the first candidate key that is in the bucket, Absent when there is none
imageKeyOf(loc) ==
  LET found == {i \in 1..Len(possibleImageKeys) : possibleImageKeys[i] \in OutputBucket(loc)}
  IN IF found = {} THEN Absent
     ELSE possibleImageKeys[CHOOSE i \in found : \A k \in found : i <= k]

\* metadata parsed from output.json, Absent ({}) when there is no such object
metadataOf(loc) == IF "/output.json" \in OutputBucket(loc) THEN "output-metadata" ELSE Absent

\* generated/<jobId>/<timestamp>.<extension>
generateImageFilename(jobId, t) == <<"generated", jobId, t, "png">>

\* one SNS record: event source, whether the message is JSON, the inference
\* id, the topic, the output location and the error message it carries
Skipped == [src : {"other"}, json : {TRUE}, jobId : {Absent}, topic : {"other"},
            loc : {Absent}, msg : {Absent}]
Malformed == [src : {"aws:sns"}, json : {FALSE}, jobId : {Absent}, topic : {"success"},
              loc : {Absent}, msg : {Absent}]
Anonymous == [src : {"aws:sns"}, json : {TRUE}, jobId : {Absent}, topic : {"error"},
              loc : {Absent}, msg : {Absent}]
Signals(ids) ==
  [src : {"aws:sns"}, json : {TRUE}, jobId : ids, topic : {"success"},
   loc : Locs \cup {Absent}, msg : {Absent}]
  \cup [src : {"aws:sns"}, json : {TRUE}, jobId : ids, topic : {"error"},
        loc : {Absent}, msg : {Absent, "CUDA out of memory"}]
  \cup [src : {"aws:sns"}, json : {TRUE}, jobId : ids, topic : {"other"},
        loc : {Absent}, msg : {Absent}]
Records(ids) == Skipped \cup Malformed \cup Anonymous \cup Signals(ids)

NoRecord == [src |-> "none", json |-> TRUE, jobId |-> Absent, topic |-> "other",
             loc |-> Absent, msg |-> Absent]

\* the invocation: where it is, the records left in the event, the status
\* code returned, whether a signal of this event was processed without a
\* write, and the record processed last with the status written for it
CbIdle == [pc |-> "idle", left |-> 0, code |-> 0, dropped |-> FALSE,
           rec |-> NoRecord, wrote |-> "none"]

\* the attributes the UpdateItem of processSuccess sets
processSuccessSets(imageUrl, publicImageKey, metadata, t) ==
  [f \in {"status", "updatedAt", "completedAt"}
         \cup (IF imageUrl # Absent THEN {"imageUrl", "outputKey"} ELSE {})
         \cup (IF metadata # Absent THEN {"metadata"} ELSE {}) |->
     IF f = "status" THEN SUCCEEDED
     ELSE IF f \in {"updatedAt", "completedAt"} THEN t
     ELSE IF f = "imageUrl" THEN imageUrl
     ELSE IF f = "outputKey" THEN publicImageKey
     ELSE metadata]

\* the attributes the UpdateItem of processError, and of the catch block of
\* processSuccess, sets
processErrorSets(errorMessage, t) ==
  [status |-> FAILED, updatedAt |-> t, error |-> errorMessage]

synthesized(message) == "Failed to process inference result: " \o message

\* the error thrown inside the try block of processSuccess, Absent when the
\* block reaches its end: copyOk and writeOk are the outcomes of CopyObject
\* and of UpdateItem
processSuccessThrows(loc, copyOk, writeOk) ==
  IF ~parseS3Uri(loc) THEN "Invalid S3 URI"
  ELSE IF imageKeyOf(loc) # Absent /\ ~copyOk THEN "copy failed"
  \* publicImageKey is declared inside the if (imageKey) block and read outside
  ELSE IF imageKeyOf(loc) # Absent THEN "publicImageKey is not defined"
  ELSE IF ~writeOk THEN "update failed"
  ELSE Absent

\* processSuccess: the result is the item, the images bucket, the status
\* written and whether the function throws
processSuccess(item, jobId, loc, copyOk, writeOk, fallbackOk) ==
  LET thrown == processSuccessThrows(loc, copyOk, writeOk)
      copied == parseS3Uri(loc) /\ imageKeyOf(loc) # Absent /\ copyOk
      bucket == IF copied THEN images \cup {generateImageFilename(jobId, now)} ELSE images
  IN IF thrown = Absent
     THEN [item |-> UpdateItem(item, jobId, processSuccessSets(Absent, Absent, metadataOf(loc), now)),
           images |-> bucket, wrote |-> SUCCEEDED, threw |-> FALSE]
     ELSE IF fallbackOk
     THEN [item |-> UpdateItem(item, jobId, processErrorSets(synthesized(thrown), now)),
           images |-> bucket, wrote |-> FAILED, threw |-> FALSE]
     ELSE [item |-> item, images |-> bucket, wrote |-> "none", threw |-> TRUE]

\* processError: a failed UpdateItem is logged and swallowed
processError(item, jobId, errorMessage, writeOk) ==
  IF writeOk
  THEN [item |-> UpdateItem(item, jobId, processErrorSets(errorMessage, now)),
        images |-> images, wrote |-> FAILED, threw |-> FALSE]
  ELSE [item |-> item, images |-> images, wrote |-> "none", threw |-> FALSE]

\* the body of the loop over event.Records for one record
processRecord(rec, copyOk, writeOk, fallbackOk) ==
  LET untouched == [item |-> NoItem, images |-> images, wrote |-> "none", threw |-> FALSE] IN
  IF rec.src # "aws:sns" THEN untouched
  ELSE IF ~rec.json THEN [untouched EXCEPT !.threw = TRUE]
  ELSE IF rec.jobId = Absent THEN untouched
  ELSE IF rec.topic = "success"
  THEN IF rec.loc # Absent
       THEN processSuccess(jobs[rec.jobId], rec.jobId, rec.loc, copyOk, writeOk, fallbackOk)
       ELSE processError(jobs[rec.jobId], rec.jobId,
                         "No output location provided in success notification", writeOk)
  ELSE IF rec.topic = "error"
  THEN processError(jobs[rec.jobId], rec.jobId,
                    IF rec.msg # Absent THEN rec.msg ELSE "Inference failed", writeOk)
  ELSE [untouched EXCEPT !.item = jobs[rec.jobId]]

\* a record is a completion signal when it carries a job id on the success or
\* the error topic
IsSignal(rec) ==
  rec.src = "aws:sns" /\ rec.json /\ rec.jobId # Absent /\ rec.topic \in {"success", "error"}

\* the outcomes of CopyObject and of the two UpdateItem commands that the
\* processing of a record can depend on (a command that is not sent succeeds)
Outcomes(rec) ==
  LET success == IsSignal(rec) /\ rec.topic = "success" /\ rec.loc # Absent
      copies == success /\ parseS3Uri(rec.loc) /\ imageKeyOf(rec.loc) # Absent
      writes == IsSignal(rec) /\ ~copies /\ (success => parseS3Uri(rec.loc))
  IN {o \in [copy : BOOLEAN, write : BOOLEAN, fallback : BOOLEAN] :
        /\ (~copies => o.copy)
        /\ (~writes => o.write)
        /\ (~success \/ (~copies /\ writes /\ o.write) => o.fallback)}

\* SNS delivers an event of 0..budget.records records
CallbackStart ==
  /\ cb.pc = "idle"
  /\ budget.callback > 0
  /\ \E n \in 0..budget.records : cb' = [CbIdle EXCEPT !.pc = "running", !.left = n]
  /\ budget' = [budget EXCEPT !.callback = @ - 1]
  /\ UNCHANGED <<now, jobs, images, staged, invoked, dispatched, sub, getResp, probe>>

\* one iteration of the loop, for a record whose inference id is in ids
CallbackRecord(ids) ==
  /\ cb.pc = "running"
  /\ cb.left > 0
  /\ \E rec \in Records(ids) : \E o \in Outcomes(rec) :
       LET r == processRecord(rec, o.copy, o.write, o.fallback) IN
       /\ jobs' = IF rec.jobId # Absent /\ r.wrote # "none"
                  THEN [jobs EXCEPT ![rec.jobId] = r.item] ELSE jobs
       /\ images' = r.images
       /\ cb' = IF r.threw
                THEN [cb EXCEPT !.pc = "returned", !.code = 500, !.left = @ - 1,
                                !.rec = rec, !.wrote = r.wrote]
                ELSE [cb EXCEPT !.left = @ - 1, !.rec = rec, !.wrote = r.wrote,
                                !.dropped = @ \/ (IsSignal(rec) /\ r.wrote = "none")]
  /\ UNCHANGED <<now, staged, invoked, dispatched, sub, getResp, budget, probe>>

\* the loop is over: 200
CallbackReturn ==
  /\ cb.pc = "running"
  /\ cb.left = 0
  /\ cb' = [cb EXCEPT !.pc = "returned", !.code = 200, !.rec = NoRecord, !.wrote = "none"]
  /\ UNCHANGED <<now, jobs, images, staged, invoked, dispatched, sub, getResp, budget, probe>>

\* the invocation ends
CallbackEnd ==
  /\ cb.pc = "returned"
  /\ cb' = CbIdle
  /\ UNCHANGED <<now, jobs, images, staged, invoked, dispatched, sub, getResp, budget, probe>>

(***************************************************************************)
(* handlers/get-job.ts                                                     *)
(***************************************************************************)
\* the response of get (status code, whether it carries a job view, the
\* status in the view) with what it answers to: whether the table holds an
\* item under the requested id, whether the requester owns that item or is
\* an admin, whether the requester owns it, and whether GetItem failed;
\* imageUrl is the result reference of the view
NoGet == [code |-> 0, view |-> FALSE, status |-> Absent, imageUrl |-> Absent,
          exists |-> FALSE, authorized |-> FALSE, owner |-> FALSE, fault |-> FALSE]

\* the imageUrl of the job view: the stored imageUrl as it is, else a URL
\* presigned for one hour for the stored outputKey (none when presigning
\* fails), and none for a job that is not SUCCEEDED
viewImageUrl(item, presignOk) ==
  IF item.status # SUCCEEDED THEN Absent
  ELSE IF item.imageUrl # Absent THEN item.imageUrl
  ELSE IF item.outputKey # Absent /\ presignOk THEN "presigned"
  ELSE Absent

\* the error the handler throws, NoError when it answers with the job view;
\* readOk is the outcome of GetItem
getError(claims, id, item, readOk) ==
  IF id = Absent THEN [name |-> "ValidationError", message |-> "Job ID is required"]
  ELSE IF extractUserContext(claims) # NoError THEN extractUserContext(claims)
  ELSE IF ~readOk THEN [name |-> "InternalError", message |-> "Failed to retrieve job"]
  ELSE IF ~attribute_exists(item) THEN [name |-> "NotFoundError", message |-> "Job not found"]
  ELSE validateResourceAccess(claims, item.userId)

Get_RecordsAccess ==
  /\ \E method \in Methods, claims \in Claims, id \in JobIds \cup {Absent}, readOk \in BOOLEAN :
       LET item == IF id = Absent THEN NoItem ELSE jobs[id]
           error == getError(claims, id, item, readOk)
       IN \E presignOk \in {ok \in BOOLEAN : (error # NoError \/ item.status # SUCCEEDED
                                                \/ item.imageUrl # Absent
                                                \/ item.outputKey = Absent) => ok} :
          getResp' =
            IF method = "OPTIONS" THEN [NoGet EXCEPT !.code = 200]
            ELSE [code |-> IF error = NoError THEN 200 ELSE errorResponse(error),
                  view |-> error = NoError,
                  status |-> IF error = NoError THEN item.status ELSE Absent,
                  imageUrl |-> IF error = NoError THEN viewImageUrl(item, presignOk) ELSE Absent,
                  exists |-> attribute_exists(item),
                  authorized |-> attribute_exists(item) /\ claims.sub # Absent
                                 /\ (claims.admin \/ claims.sub = item.userId),
                  owner |-> attribute_exists(item) /\ claims.sub = item.userId,
                  fault |-> error.name = "InternalError"]
  /\ jobs' = [id \in JobIds |-> IF attribute_exists(jobs[id])
                               THEN [jobs[id] EXCEPT !.updatedAt = now] ELSE jobs[id]]
  /\ UNCHANGED <<now, images, staged, invoked, dispatched, sub, cb, budget, probe>>

Get ==
  /\ \E method \in Methods, claims \in Claims, id \in JobIds \cup {Absent}, readOk \in BOOLEAN :
       LET item == IF id = Absent THEN NoItem ELSE jobs[id]
           error == getError(claims, id, item, readOk)
       IN \E presignOk \in {ok \in BOOLEAN : (error # NoError \/ item.status # SUCCEEDED
                                                \/ item.imageUrl # Absent
                                                \/ item.outputKey = Absent) => ok} :
          getResp' =
            IF method = "OPTIONS" THEN [NoGet EXCEPT !.code = 200]
            ELSE [code |-> IF error = NoError THEN 200 ELSE errorResponse(error),
                  view |-> error = NoError,
                  status |-> IF error = NoError THEN item.status ELSE Absent,
                  imageUrl |-> IF error = NoError THEN viewImageUrl(item, presignOk) ELSE Absent,
                  exists |-> attribute_exists(item),
                  authorized |-> attribute_exists(item) /\ claims.sub # Absent
                                 /\ (claims.admin \/ claims.sub = item.userId),
                  owner |-> attribute_exists(item) /\ claims.sub = item.userId,
                  fault |-> error.name = "InternalError"]
  /\ UNCHANGED <<now, jobs, images, staged, invoked, dispatched, sub, cb, budget, probe>>

(***************************************************************************)
(* The clock and the specification                                         *)
(***************************************************************************)
Tick ==
  /\ now < MaxTime
  /\ now' = now + 1
  /\ UNCHANGED <<jobs, images, staged, invoked, dispatched, sub, cb, getResp, budget, probe>>

StartState ==
  /\ now = 0
  /\ jobs = [id \in JobIds |-> NoItem]
  /\ images = {}
  /\ staged = {}
  /\ invoked = [id \in JobIds |-> 0]
  /\ dispatched = {}
  /\ sub = [h \in Handlers |-> SubIdle]
  /\ cb = CbIdle
  /\ getResp = NoGet

\* no function is applied on its own
NoProbe == [kind |-> "none"]

Init ==
  /\ StartState
  /\ probe = NoProbe
  /\ budget = [submit |-> MaxSubmits, callback |-> MaxEvents, records |-> MaxRecords]

Next ==
  \/ \E h \in Handlers : SubmitStart(h)
  \/ \E h \in Handlers : SubmitInvokeSync(h)
  \/ \E h \in Handlers : SubmitUpdateSucceeded(h)
  \/ \E h \in Handlers : SubmitStage(h)
  \/ \E h \in Handlers : SubmitInvokeAsync(h)
  \/ \E h \in Handlers : SubmitUpdateRunning(h)
  \/ \E h \in Handlers : SubmitCatch(h)
  \/ \E h \in Handlers : SubmitReturn(h)
  \/ CallbackStart
  \* notifications carry the inference id of an accepted asynchronous invocation
  \/ CallbackRecord(dispatched)
  \/ CallbackReturn
  \/ CallbackEnd
  \/ Tick

Spec == Init /\ [][Next]_vars

\* the same system together with the get handler
InitGet ==
  /\ StartState
  /\ probe = NoProbe
  /\ budget = [submit |-> GetSubmits, callback |-> GetEvents, records |-> GetRecords]

NextGet ==
  \/ Next
  \/ Get

SpecGet == InitGet /\ [][NextGet]_vars

\* the same system when the topics also carry notifications whose inference
\* id is any job id, whether or not it was dispatched
NextAny ==
  \/ Next
  \/ CallbackRecord(JobIds)

SpecAny == InitGet /\ [][NextAny]_vars

(***************************************************************************)
(* Request validation: packages/shared/src/types/api.ts (zod schema of the *)
(* TypeScript handler) and lambda-src/submit-job.js (validateInput)        *)
(***************************************************************************)
\* JSON values of a request body.  A number is held as the count of its
\* halves (n = 2 * value, so 2.5 is n = 5 and an integer has an even n); a
\* string is held as its length n and its content s, where the content
\* "blank" is white space only.
Undefined == [t |-> "undefined", n |-> 0, s |-> ""]
Number(halves) == [t |-> "number", n |-> halves, s |-> ""]
Str(len, content) == [t |-> "string", n |-> len, s |-> content]

\* v < k and v > k for a number v and an integer k
Below(v, k) == v.n \div 2 < k
Above(v, k) == (v.n + 1) \div 2 > k

Prompts == {Undefined, Str(0, ""), Str(1, "blank"), Str(1, "text"),
            Str(1000, "text"), Str(1001, "text")}
StepsValues == {Undefined, Number(0), Number(2), Number(5), Number(100), Number(102)}
WidthValues == {Undefined, Number(0), Number(512), Number(600), Number(641),
                Number(2048), Number(2176), Str(3, "512")}
HeightValues == {Undefined, Number(384), Number(2000), Number(2048)}
GuidanceValues == {Undefined, Number(0), Number(15), Number(41)}
SeedValues == {Undefined, Number(0), Number(-2), Number(3)}
QualityValues == {Undefined, Str(3, "low"), Str(5, "ultra")}
ModeValues == {Undefined, Str(4, "sync"), Str(5, "batch")}
NegativePrompts == {Undefined, Str(501, "text")}

Requests ==
  [prompt : Prompts, steps : StepsValues, guidanceScale : GuidanceValues,
   width : WidthValues, height : HeightValues, seed : SeedValues,
   quality : QualityValues, mode : ModeValues, negativePrompt : NegativePrompts]

\* one zod issue: the path of the field and the message
Issue(cond, path, message) == IF cond THEN {<<path, message>>} ELSE {}

\* z.string().min(min, minMsg).max(max, maxMsg)
ZodString(v, path, min, minMsg, max, maxMsg) ==
  IF v.t = "undefined" THEN {<<path, "Required">>}
  ELSE IF v.t # "string" THEN {<<path, "Expected string, received number">>}
  ELSE Issue(v.n < min, path, minMsg) \cup Issue(v.n > max, path, maxMsg)

\* z.number()[.int()].min(min, minMsg).max(max, maxMsg): every check of a
\* value of the right type is evaluated
ZodNumber(v, path, int, min, minMsg, max, maxMsg) ==
  IF v.t = "undefined" THEN {<<path, "Required">>}
  ELSE IF v.t # "number" THEN {<<path, "Expected number, received string">>}
  ELSE Issue(int /\ v.n % 2 # 0, path, "Expected integer, received float")
         \cup Issue(Below(v, min), path, minMsg)
         \cup Issue(Above(v, max), path, maxMsg)

\* val => val % 64 === 0
divisibleBy64_Always(v) == TRUE

divisibleBy64(v) == v.n % 128 = 0

\* .refine(check, message): skipped when the value has the wrong type
ZodRefine(v, path, inner, check, message) ==
  IF v.t # "number" THEN inner
  ELSE inner \cup Issue(~check, path, message)

\* z.enum(values)
ZodEnum(v, path, values) ==
  IF v.t = "undefined" THEN {<<path, "Required">>}
  ELSE Issue(~(v.t = "string" /\ v.s \in values), path, "Invalid enum value")

\* .optional(): an absent value has no issue
ZodOptional(v, issues) == IF v.t = "undefined" THEN {} ELSE issues

\* the issues of SubmitJobRequestSchema.safeParse(body)
SubmitJobRequestSchema(body) ==
  ZodString(body.prompt, "prompt", 1, "Prompt cannot be empty",
            1000, "Prompt too long (max 1000 characters)")
  \cup ZodOptional(body.steps,
         ZodNumber(body.steps, "steps", TRUE, 1, "Steps must be at least 1",
                   50, "Steps cannot exceed 50"))
  \cup ZodOptional(body.guidanceScale,
         ZodNumber(body.guidanceScale, "guidanceScale", FALSE,
                   1, "Guidance scale must be at least 1.0",
                   20, "Guidance scale cannot exceed 20.0"))
  \cup ZodOptional(body.width,
         ZodRefine(body.width, "width",
                   ZodNumber(body.width, "width", TRUE, 256, "Width must be at least 256",
                             1024, "Width cannot exceed 1024"),
                   divisibleBy64(body.width), "Width must be divisible by 64"))
  \cup ZodOptional(body.height,
         ZodRefine(body.height, "height",
                   ZodNumber(body.height, "height", TRUE, 256, "Height must be at least 256",
                             1024, "Height cannot exceed 1024"),
                   divisibleBy64(body.height), "Height must be divisible by 64"))
  \cup ZodOptional(body.seed,
         ZodNumber(body.seed, "seed", TRUE,
                   0, "Number must be greater than or equal to 0",
                   2147483647, "Number must be less than or equal to 2147483647"))
  \cup ZodOptional(body.quality, ZodEnum(body.quality, "quality", {"low", "medium", "high"}))
  \cup ZodOptional(body.mode, ZodEnum(body.mode, "mode", {"async", "sync"}))
  \cup ZodOptional(body.negativePrompt,
         ZodString(body.negativePrompt, "negativePrompt", 0, "",
                   500, "String must contain at most 500 character(s)"))

\* the body the TypeScript handler sees after JSON.parse and safeParse
parsedBody(body) == IF SubmitJobRequestSchema(body) = {} THEN "valid" ELSE "invalid"

\* JavaScript truthiness of a value
truthy(v) == v.t # "undefined" /\ v.n # 0

\* the guard written for each numeric field of validateInput
outOfRange(v, min, max) == v.t # "number" \/ Below(v, min) \/ Above(v, max)

\* lambda-src/submit-job.js validateInput: the list of error messages
validateInput(body) ==
  Issue(~truthy(body.prompt) \/ body.prompt.t # "string" \/ body.prompt.s = "blank",
        "prompt", "prompt is required and must be a non-empty string")
  \cup Issue(truthy(body.prompt) /\ body.prompt.t = "string" /\ body.prompt.n > 1000,
             "prompt", "prompt must be less than 1000 characters")
  \cup Issue(truthy(body.steps) /\ outOfRange(body.steps, 1, 50),
             "steps", "steps must be a number between 1 and 50")
  \cup Issue(truthy(body.guidanceScale) /\ outOfRange(body.guidanceScale, 1, 20),
             "guidanceScale", "guidanceScale must be a number between 1 and 20")
  \cup Issue(truthy(body.width)
               /\ (outOfRange(body.width, 256, 1024) \/ body.width.n % 128 # 0),
             "width", "width must be a number between 256 and 1024, divisible by 64")
  \cup Issue(truthy(body.height)
               /\ (outOfRange(body.height, 256, 1024) \/ body.height.n % 128 # 0),
             "height", "height must be a number between 256 and 1024, divisible by 64")
  \cup Issue(truthy(body.seed) /\ outOfRange(body.seed, 0, 2147483647),
             "seed", "seed must be a number between 0 and 2147483647")
  \cup Issue(truthy(body.quality)
               /\ ~(body.quality.t = "string" /\ body.quality.s \in {"low", "medium", "high"}),
             "quality", "quality must be one of: low, medium, high")
  \cup Issue(truthy(body.mode)
               /\ ~(body.mode.t = "string" /\ body.mode.s \in {"async", "sync"}),
             "mode", "mode must be one of: async, sync")

\* one request body is validated by the TypeScript handler (issues, the
\* status code and the message of its response; code 0: it goes on to create
\* the job) and by the deployed handler (errors and status code)
Validate ==
  /\ probe.kind = "validate"
  /\ ~probe.done
  /\ LET issues == SubmitJobRequestSchema(probe.body)
         error == bodyError(parsedBody(probe.body))
         errors == validateInput(probe.body)
     IN probe' = [probe EXCEPT
                    !.done = TRUE,
                    !.issues = issues,
                    !.code = IF error = NoError THEN 0 ELSE errorResponse(error),
                    !.message = IF error = NoError THEN Absent
                                ELSE errorResponseBody(error).message,
                    !.errors = errors,
                    !.jsCode = IF errors # {} THEN 400 ELSE 0]
  /\ UNCHANGED <<now, jobs, images, staged, invoked, dispatched, sub, cb, getResp, budget>>

InitValidate ==
  /\ StartState
  /\ budget = [submit |-> 0, callback |-> 0, records |-> 0]
  /\ \E body \in Requests :
       probe = [kind |-> "validate", body |-> body, done |-> FALSE, issues |-> {},
                code |-> 0, message |-> Absent, errors |-> {}, jsCode |-> 0]

NextValidate == Validate

SpecValidate == InitValidate /\ [][NextValidate]_vars

(***************************************************************************)
(* utils/response.ts: the whole response of errorResponse, for either      *)
(* value of NODE_ENV, and the entry it logs                                *)
(***************************************************************************)
NodeEnvs == {"production", "development", Absent}
ErrorNames == {"InternalError", "Error", "ValidationError", "UnauthorizedError",
               "NotFoundError"}
ErrorMessages == {"Failed to create job", "Failed to complete inference",
                  "connect ECONNREFUSED 10.0.0.5:443"}
ErrorCauses == {Absent, "ConditionalCheckFailedException", "ThrottlingException"}
ThrownErrors == [name : ErrorNames, message : ErrorMessages, cause : ErrorCauses]
RequestIds == {"req-1"}

errorResponseOf_Leak(error, nodeEnv) ==
  [statusCode |-> errorResponse(error),
   body |-> IF errorResponse(error) = 500
            THEN [error |-> "Internal server error", message |-> error.message]
            ELSE errorResponseBody(error)]

errorResponseOf(error, nodeEnv) ==
  [statusCode |-> errorResponse(error),
   body |-> IF errorResponse(error) = 500
            THEN [error |-> "Internal server error",
                  message |-> IF nodeEnv = "development" THEN error.message
                              ELSE "An unexpected error occurred"]
            ELSE errorResponseBody(error)]

\* the entry logger.warn / logger.error receives
errorLog(error, requestId) ==
  [error |-> error.message,
   cause |-> IF error.name = "InternalError" THEN error.cause ELSE Absent,
   requestId |-> requestId]

\* two requests end in the errors probe.e1 and probe.e2 and are answered
Respond ==
  /\ probe.kind = "error"
  /\ ~probe.done
  /\ probe' = [probe EXCEPT
                 !.done = TRUE,
                 !.r1 = errorResponseOf(probe.e1, probe.nodeEnv),
                 !.r2 = errorResponseOf(probe.e2, probe.nodeEnv),
                 !.log1 = errorLog(probe.e1, probe.requestId),
                 !.log2 = errorLog(probe.e2, probe.requestId)]
  /\ UNCHANGED <<now, jobs, images, staged, invoked, dispatched, sub, cb, getResp, budget>>

InitError ==
  /\ StartState
  /\ budget = [submit |-> 0, callback |-> 0, records |-> 0]
  /\ \E e1 \in ThrownErrors, e2 \in ThrownErrors, env \in NodeEnvs, id \in RequestIds :
       probe = [kind |-> "error", nodeEnv |-> env, requestId |-> id,
                e1 |-> e1, e2 |-> e2, done |-> FALSE,
                r1 |-> Absent, r2 |-> Absent, log1 |-> Absent, log2 |-> Absent]

NextError == Respond

SpecError == InitError /\ [][NextError]_vars

(***************************************************************************)
(* handlers/get-job.ts: the estimated completion of a job that is not      *)
(* finished (times in milliseconds)                                        *)
(***************************************************************************)
ColdStartHint == "Processing... First inference may take up to 60 seconds due to cold start."
FewMinutesHint == "Processing... Should complete within the next few minutes."
LongerHint == "Processing is taking longer than expected. Please check back in a few minutes."

CreatedTimes == {0, 60000, 90000}
CurrentTimes == {0, 59999, 119999, 120000, 179999, 180000, 299999, 300000,
                 359999, 360000, 390000, 600000}

\* response.estimatedCompletion, Absent when the handler does not set it
estimatedCompletion_Inclusive(status, createdTime, currentTime) ==
  LET elapsedMinutes == (currentTime - createdTime) \div 60000
  IN IF status \notin {PENDING, RUNNING} THEN Absent
     ELSE IF elapsedMinutes <= 2 THEN ColdStartHint
     ELSE IF elapsedMinutes <= 5 THEN FewMinutesHint
     ELSE LongerHint

estimatedCompletion(status, createdTime, currentTime) ==
  LET elapsedMinutes == (currentTime - createdTime) \div 60000
  IN IF status \notin {PENDING, RUNNING} THEN Absent
     ELSE IF elapsedMinutes < 2 THEN ColdStartHint
     ELSE IF elapsedMinutes < 5 THEN FewMinutesHint
     ELSE LongerHint

\* get builds the response of a job with the given status and creation time
Estimate ==
  /\ probe.kind = "hint"
  /\ ~probe.done
  /\ probe' = [probe EXCEPT
                 !.done = TRUE,
                 !.estimatedCompletion =
                    estimatedCompletion(probe.status, probe.createdTime, probe.currentTime)]
  /\ UNCHANGED <<now, jobs, images, staged, invoked, dispatched, sub, cb, getResp, budget>>

InitHint ==
  /\ StartState
  /\ budget = [submit |-> 0, callback |-> 0, records |-> 0]
  /\ \E status \in {PENDING, RUNNING} \cup Terminal, createdTime \in CreatedTimes, currentTime \in CurrentTimes :
       probe = [kind |-> "hint", status |-> status, createdTime |-> createdTime,
                currentTime |-> currentTime, done |-> FALSE,
                estimatedCompletion |-> Absent]

NextHint == Estimate

SpecHint == InitHint /\ [][NextHint]_vars

(***************************************************************************)
(* The deployed submit handler: lambda-src/submit-job.js                   *)
(***************************************************************************)
\* getUserId
getUserId(claims) == IF claims.sub = Absent THEN "anonymous" ELSE claims.sub

\* the request body with no field, which JSON.parse(event.body || '{}')
\* yields for a missing body
EmptyBody ==
  [prompt |-> Undefined, steps |-> Undefined, guidanceScale |-> Undefined,
   width |-> Undefined, height |-> Undefined, seed |-> Undefined,
   quality |-> Undefined, mode |-> Undefined, negativePrompt |-> Undefined]

\* the error label of the 400 response for a body, Absent for a valid one
jsBodyError(body) ==
  IF body = "badjson" THEN "Invalid JSON in request body"
  ELSE IF body = "missing"
  THEN IF validateInput(EmptyBody) # {} THEN "Validation failed" ELSE Absent
  ELSE IF body = "invalid" THEN "Validation failed"
  ELSE Absent

\* the response of the outer catch block
jsCatchResponse(message) ==
  [NoResp EXCEPT !.code = 500, !.error = "Internal server error", !.details = message]

\* the outer catch block: it only builds the response
JsCatch(h, message) ==
  [sub EXCEPT ![h].pc = "done",
              ![h].error = [name |-> "Error", message |-> message],
              ![h].resp = jsCatchResponse(message)]

\* from the request to the end of the PutItem that stores the job
JsSubmitStart(h) ==
  /\ sub[h].pc = "idle"
  /\ budget.submit > 0
  /\ \E claims \in Claims, body \in Bodies, mode \in Modes, id \in JobIds :
       IF jsBodyError(body) # Absent
       THEN /\ sub' = [sub EXCEPT ![h].pc = "done", ![h].body = body,
                                  ![h].resp = [NoResp EXCEPT !.code = 400,
                                                             !.error = jsBodyError(body)]]
            /\ UNCHANGED jobs
       ELSE \E ok \in BOOLEAN :
              IF ok
              THEN /\ jobs' = [jobs EXCEPT ![id] = jobItem(id, getUserId(claims), mode, now)]
                   /\ sub' = [sub EXCEPT ![h].pc = "dispatch", ![h].jobId = id,
                                         ![h].body = body, ![h].mode = mode,
                                         ![h].created = TRUE]
              ELSE /\ UNCHANGED jobs
                   /\ sub' = [JsCatch(h, "PutItem failed") EXCEPT
                                ![h].jobId = id, ![h].body = body, ![h].mode = mode]
  /\ budget' = [budget EXCEPT !.submit = @ - 1]
  /\ UNCHANGED <<now, images, staged, invoked, dispatched, cb, getResp, probe>>

\* async mode: the input is uploaded to the input bucket
JsStage(h) ==
  /\ sub[h].pc = "dispatch"
  /\ sub[h].mode = "async"
  /\ \E ok \in BOOLEAN :
       IF ok
       THEN /\ staged' = staged \cup {sub[h].jobId}
            /\ sub' = [sub EXCEPT ![h].pc = "invokeAsync"]
       ELSE /\ UNCHANGED staged
            /\ sub' = [JsCatch(h, "PutObject failed") EXCEPT ![h].invokeFailed = TRUE]
  /\ UNCHANGED <<now, jobs, images, invoked, dispatched, cb, getResp, budget, probe>>

\* async mode: InvokeEndpointAsync and the 202 response
JsInvokeAsync(h) ==
  /\ sub[h].pc = "invokeAsync"
  /\ invoked' = CountInvoke(sub[h].jobId)
  /\ \E outcome \in AsyncOutcomes, full \in BOOLEAN :
       /\ dispatched' = IF outcome = "rejected" THEN dispatched
                        ELSE dispatched \cup {sub[h].jobId}
       /\ sub' = IF outcome = "rejected"
                 THEN [JsCatch(h, "InvokeEndpointAsync failed") EXCEPT
                         ![h].invokeFailed = TRUE, ![h].poolFull = full]
                 ELSE [sub EXCEPT
                         ![h].pc = "done", ![h].poolFull = full,
                         ![h].resp = [asyncResponse(sub[h].jobId) EXCEPT
                                        !.message = "Job submitted successfully"]]
  /\ UNCHANGED <<now, jobs, images, staged, cb, getResp, budget, probe>>

\* sync mode: InvokeEndpoint and the decoding of its response
JsInvokeSync(h) ==
  /\ sub[h].pc = "dispatch"
  /\ sub[h].mode = "sync"
  /\ invoked' = CountInvoke(sub[h].jobId)
  /\ \E outcome \in {"ok", "error"}, full \in BOOLEAN :
       sub' = IF outcome = "ok"
              THEN [sub EXCEPT ![h].pc = "updateSucceeded", ![h].poolFull = full]
              ELSE [sub EXCEPT ![h].pc = "catch", ![h].poolFull = full,
                               ![h].invokeFailed = TRUE, ![h].cause = outcome,
                               ![h].error = [name |-> "Error",
                                             message |-> "InvokeEndpoint failed"]]
  /\ UNCHANGED <<now, jobs, images, staged, dispatched, cb, getResp, budget, probe>>

\* sync mode: the PutItem of the job as SUCCEEDED and the 200 response.  The
\* item the handler holds is the one stored under the id: no other writer
\* runs between its two writes.
JsPutSucceeded(h) ==
  /\ sub[h].pc = "updateSucceeded"
  /\ \E ok \in BOOLEAN :
       IF ok
       THEN /\ jobs' = [jobs EXCEPT ![sub[h].jobId] =
                          [@ EXCEPT !.status = SUCCEEDED, !.updatedAt = now,
                                    !.result = "generated_image"]]
            /\ sub' = [sub EXCEPT ![h].pc = "done",
                                  ![h].resp = syncResponse(sub[h].jobId)]
       ELSE /\ UNCHANGED jobs
            /\ sub' = [sub EXCEPT ![h].pc = "catch",
                                  ![h].error = [name |-> "Error",
                                                message |-> "PutItem failed"]]
  /\ UNCHANGED <<now, images, staged, invoked, dispatched, cb, getResp, budget, probe>>

\* sync mode, the inner catch block: the PutItem of the job as FAILED and
\* the 500 response; when this PutItem fails the outer catch block answers
JsPutFailed(h) ==
  /\ sub[h].pc = "catch"
  /\ \E ok \in BOOLEAN :
       IF ok
       THEN /\ jobs' = [jobs EXCEPT ![sub[h].jobId] =
                          [@ EXCEPT !.status = FAILED, !.updatedAt = now,
                                    !.error = sub[h].error.message]]
            /\ sub' = [sub EXCEPT ![h].pc = "done", ![h].failedAttempts = 1,
                                  ![h].failedWriteOk = TRUE,
                                  ![h].resp = [NoResp EXCEPT
                                                 !.code = 500,
                                                 !.error = "Inference failed",
                                                 !.details = sub[h].error.message]]
       ELSE /\ UNCHANGED jobs
            /\ sub' = [JsCatch(h, "PutItem failed") EXCEPT ![h].failedAttempts = 1]
  /\ UNCHANGED <<now, images, staged, invoked, dispatched, cb, getResp, budget, probe>>

NextJs ==
  \/ \E h \in Handlers : JsSubmitStart(h)
  \/ \E h \in Handlers : JsStage(h)
  \/ \E h \in Handlers : JsInvokeAsync(h)
  \/ \E h \in Handlers : JsInvokeSync(h)
  \/ \E h \in Handlers : JsPutSucceeded(h)
  \/ \E h \in Handlers : JsPutFailed(h)
  \/ \E h \in Handlers : SubmitReturn(h)
  \/ Tick

SpecJs == Init /\ [][NextJs]_vars

(***************************************************************************)
(* Properties                                                              *)
(***************************************************************************)
\* the step is an iteration of the callback handler's loop; the record it
\* processed is cb'.rec
ProcessedRecord == cb.pc = "running" /\ cb'.left = cb.left - 1

\* the step is the write of handler h's catch block
CatchStep(h) == sub[h].pc = "catch" /\ sub'[h].pc = "done"

\* C1: once a job's stored status is SUCCEEDED or FAILED, no later write
\* changes it to PENDING or RUNNING.
C1_TerminalNeverReopened ==
  [][\A id \in JobIds :
       jobs[id].status \in Terminal => jobs'[id].status \notin {PENDING, RUNNING}]_vars

\* C2: a completion signal for a job whose stored status is not RUNNING
\* leaves the job record unchanged and raises no error.
C2_SignalAppliesOnlyToRunning ==
  [][(ProcessedRecord /\ IsSignal(cb'.rec) /\ jobs[cb'.rec.jobId].status # RUNNING)
       => (jobs' = jobs /\ cb'.code # 500)]_vars

\* C3: the second processing of a completion signal, against the job as the
\* first processing left it, changes nothing in the Job Store and adds no
\* object to the images bucket.
C3_SecondDeliveryHasNoEffect ==
  [][(/\ ProcessedRecord
      /\ IsSignal(cb'.rec)
      /\ cb.rec = cb'.rec
      /\ cb.wrote \in Terminal
      /\ jobs[cb'.rec.jobId].status = cb.wrote)
       => (jobs' = jobs /\ images' = images)]_vars

\* C4: a success signal whose output location holds no image under any of
\* the known key patterns never marks the job SUCCEEDED; what it writes is
\* FAILED with the synthesized error.
C4_UnresolvedResultFails ==
  [][(/\ ProcessedRecord
      /\ IsSignal(cb'.rec)
      /\ cb'.rec.topic = "success"
      /\ cb'.rec.loc # Absent
      /\ parseS3Uri(cb'.rec.loc)
      /\ imageKeyOf(cb'.rec.loc) = Absent)
       => (/\ cb'.wrote # SUCCEEDED
           /\ cb'.wrote = FAILED => jobs'[cb'.rec.jobId].status = FAILED)]_vars

\* C5: when the callback handler returns 200, every completion signal of the
\* event was written to the Job Store as SUCCEEDED or FAILED.
C5_NoSignalDropped ==
  (cb.pc = "returned" /\ cb.code = 200) => ~cb.dropped

\* C6: when invokeSync or invokeAsync fails after the record was created, the
\* handler attempts the FAILED write exactly once and returns 500, and a
\* write that succeeds stores FAILED with the error message.
C6_DispatchFailureRecorded ==
  /\ [](\A h \in Handlers :
          (sub[h].pc = "done" /\ sub[h].invokeFailed)
            => (sub[h].created /\ sub[h].failedAttempts = 1 /\ sub[h].resp.code = 500))
  /\ [][\A h \in Handlers :
          (CatchStep(h) /\ sub[h].invokeFailed /\ sub'[h].failedWriteOk)
            => (/\ jobs'[sub[h].jobId].status = FAILED
                /\ jobs'[sub[h].jobId].error = sub[h].error.message)]_vars

C6_Witness ==
  \E h \in Handlers :
    /\ sub[h].pc = "done"
    /\ sub[h].invokeFailed
    /\ sub[h].failedWriteOk
    /\ sub[h].resp.code = 500
    /\ jobs[sub[h].jobId].status = FAILED
    /\ jobs[sub[h].jobId].error = "Failed to start inference"

\* the step is a submit request whose generated id already has an item
CollisionStep(h) ==
  /\ sub[h].pc = "idle"
  /\ sub'[h].jobId # Absent
  /\ attribute_exists(jobs[sub'[h].jobId])

\* C7: a create for an id that already has a record fails and leaves the
\* record unchanged; the submit handler then stages nothing, invokes nothing,
\* updates no status and answers with an error.
C7_CreateIsWriteOnce ==
  /\ [][\A h \in Handlers :
          CollisionStep(h)
            => (/\ jobs' = jobs
                /\ sub'[h].pc = "done"
                /\ ~sub'[h].created
                /\ sub'[h].resp.code = 500)]_vars
  /\ [][\A h \in Handlers :
          (sub'[h] # sub[h] /\ ~sub[h].created /\ sub[h].pc # "idle")
            => (UNCHANGED <<jobs, staged, invoked, dispatched>> /\ sub'[h].pc = "idle")]_vars

C7_Witness ==
  \E h \in Handlers :
    /\ sub[h].pc = "done"
    /\ sub[h].jobId # Absent
    /\ ~sub[h].created
    /\ sub[h].error.message = "Failed to create job"
    /\ jobs[sub[h].jobId].status \in {RUNNING, SUCCEEDED, FAILED}
    /\ budget.submit = 0

\* C8: a job record has completedAt if and only if its status is SUCCEEDED
\* or FAILED.
C8_CompletedAtIffTerminal ==
  \A id \in JobIds :
    attribute_exists(jobs[id])
      => (jobs[id].completedAt # NoTime <=> jobs[id].status \in Terminal)

\* C9: for every job id at most one InvokeEndpoint or InvokeEndpointAsync
\* command is sent, and at the moment it is sent the job is PENDING.
C9_DispatchAtMostOnce ==
  /\ [](\A id \in JobIds : invoked[id] <= 1)
  /\ [][\A id \in JobIds :
          invoked'[id] # invoked[id] => jobs[id].status = PENDING]_vars

C9_Witness ==
  \E h \in Handlers, id \in JobIds :
    /\ invoked[id] = 1
    /\ sub[h].pc = "done"
    /\ sub[h].jobId = id
    /\ ~sub[h].created
    /\ budget.submit = 0

\* C10 as stated: a job view goes only to the owner or an admin, every other
\* requester of an existing job receives 403, and 404 means there is no
\* record.
C10_AccessAsStated ==
  /\ getResp.view => (getResp.code = 200 /\ getResp.authorized)
  /\ (getResp.exists /\ ~getResp.authorized) => getResp.code = 403
  /\ getResp.code = 404 => ~getResp.exists

\* C10 as amended: a job view goes only to the owner or an admin, every other
\* requester of an existing job receives 403, or 500 when reading the Job
\* Store fails, and 404 means there is no record.
C10_Access ==
  /\ getResp.view => (getResp.code = 200 /\ getResp.authorized)
  /\ (getResp.exists /\ ~getResp.authorized)
       => (getResp.code \in {403, 500} /\ (getResp.code = 500 <=> getResp.fault))
  /\ getResp.code = 404 => ~getResp.exists

C10_Witness ==
  getResp.exists /\ ~getResp.authorized /\ getResp.code = 403 /\ ~getResp.view

\* the step is handler h taking a request
StartStep(h) == sub[h].pc = "idle" /\ sub'[h].pc # "idle"

\* the step is the end of the invocation of handler h
ReturnStep(h) == sub[h].pc = "done" /\ sub'[h] # sub[h]

\* handler h serves a POST request with claims whose body fails validation
InvalidRequest(r) == r.authed /\ r.body \in Bodies \ {"valid"}

\* C11: a submit request with a missing body, a body that is not JSON or a
\* body that violates the schema is answered 400 with the validation message,
\* and from the request to the end of the invocation the handler writes
\* nothing to the Job Store, stages nothing and invokes nothing.
C11_ValidationFailureHasNoEffect ==
  /\ [][\A h \in Handlers :
          (StartStep(h) /\ InvalidRequest(sub'[h]))
            => (/\ sub'[h].pc = "done"
                /\ ~sub'[h].created
                /\ sub'[h].resp.code = 400
                /\ sub'[h].resp.error = "Validation failed"
                /\ sub'[h].resp.message \in {"Request body is required",
                                             "Invalid JSON in request body",
                                             "Invalid request parameters"}
                /\ UNCHANGED <<jobs, staged, invoked, dispatched, images>>)]_vars
  /\ [][\A h \in Handlers :
          (ReturnStep(h) /\ InvalidRequest(sub[h]))
            => (/\ sub'[h].pc = "idle"
                /\ UNCHANGED <<jobs, staged, invoked, dispatched, images>>)]_vars

C11_Witness ==
  \E h \in Handlers, id \in JobIds :
    /\ sub[h].pc = "done"
    /\ sub[h].authed
    /\ sub[h].body = "invalid"
    /\ sub[h].resp.code = 400
    /\ jobs[id].status = RUNNING

\* handler h answered a sync request whose invocation the worker pool
\* answered, and every write the handler sent to the Job Store succeeded
SyncAnswered(h) ==
  /\ sub[h].pc = "done"
  /\ sub[h].mode = "sync"
  /\ sub[h].created
  /\ sub[h].cause \in {Absent, "error"}
  /\ \/ sub[h].resp.code = 200
     \/ sub[h].invokeFailed /\ sub[h].failedWriteOk

\* C12: when a sync submit returns after the worker pool responded and the
\* Job Store writes succeeded, the stored status is SUCCEEDED exactly when
\* the response is 200 with the inline result, FAILED exactly when the
\* invocation failed and the response is 500, and never PENDING or RUNNING.
C12_SyncEndsTerminal ==
  \A h \in Handlers :
    SyncAnswered(h)
      => (/\ jobs[sub[h].jobId].status \in Terminal
          /\ jobs[sub[h].jobId].status = SUCCEEDED
               <=> (sub[h].resp.code = 200 /\ sub[h].resp.result # Absent)
          /\ jobs[sub[h].jobId].status = FAILED
               <=> (sub[h].invokeFailed /\ sub[h].resp.code = 500))

C12_Witness ==
  \E h \in Handlers :
    /\ SyncAnswered(h)
    /\ sub[h].resp.code = 200
    /\ jobs[sub[h].jobId].status = SUCCEEDED
    /\ jobs[sub[h].jobId].metadata = "sync-metadata"

\* C13: when the invocation of a sync submit gets no response within the
\* timeout, the submit call ends with the job FAILED, with a stored error
\* that differs from the one stored for a worker error, and with an error
\* response to the caller.
C13_SyncTimeoutClassified ==
  \A h \in Handlers :
    (sub[h].pc = "done" /\ sub[h].mode = "sync" /\ sub[h].cause \in {"timeout", "noResponse"})
      => (/\ jobs[sub[h].jobId].status = FAILED
          /\ jobs[sub[h].jobId].error \notin {Absent, invokeSyncError.message}
          /\ sub[h].resp.code >= 400)

\* the step is a get request answered with a response that differs from the
\* last one
GetStep == getResp' # getResp

\* handler h has answered 202 for job id; after that the callback handler
\* processed a success signal for id whose output location holds an image,
\* copied the image to the images bucket and wrote a terminal status, which
\* is the last write to the record
ImageSignalProcessed(h, id) ==
  /\ sub[h].pc = "done"
  /\ sub[h].resp.code = 202
  /\ sub[h].jobId = id
  /\ cb.pc = "running"
  /\ IsSignal(cb.rec)
  /\ cb.rec.jobId = id
  /\ cb.rec.topic = "success"
  /\ cb.rec.loc # Absent
  /\ parseS3Uri(cb.rec.loc)
  /\ imageKeyOf(cb.rec.loc) # Absent
  /\ \E t \in 0..MaxTime : generateImageFilename(id, t) \in images
  /\ cb.wrote \in Terminal
  /\ jobs[id].status = cb.wrote

\* C14: a get by the owner, answered with the job view after an async submit
\* returned 202 and a success signal with an image was then processed,
\* returns status SUCCEEDED with an imageUrl.
C14_AsyncSuccessVisible ==
  [][\A h \in Handlers, id \in JobIds :
       (GetStep /\ getResp'.view /\ getResp'.owner /\ ImageSignalProcessed(h, id))
         => (getResp'.status = SUCCEEDED /\ getResp'.imageUrl # Absent)]_vars

\* handler h ends an async request whose invokeAsync returned an output
\* location
AsyncAcknowledged(h) ==
  /\ sub[h].pc = "done"
  /\ sub[h].mode = "async"
  /\ sub[h].created
  /\ ~sub[h].invokeFailed

\* the 202 response of C15 and the identifiers it speaks of
AcceptedResponse(h) ==
  /\ sub[h].resp.code = 202
  /\ sub[h].resp.status = PENDING
  /\ sub[h].resp.estimatedWaitTime = "60-120 seconds"
  /\ sub[h].resp.jobId = sub[h].jobId
  /\ attribute_exists(jobs[sub[h].resp.jobId])
  /\ sub[h].resp.jobId \in staged
  /\ sub[h].resp.jobId \in dispatched

\* C15 as stated: an async submit whose invokeAsync is acknowledged returns
\* 202 with status PENDING, estimatedWaitTime '60-120 seconds' and the jobId
\* of the record it created, which is also the InferenceId and the key of the
\* staged input.
C15_AsyncAcceptedAsStated ==
  \A h \in Handlers : AsyncAcknowledged(h) => AcceptedResponse(h)

\* C15 as amended: the same when the write of RUNNING succeeds; when that
\* write fails the submit returns 500.
C15_AsyncAccepted ==
  \A h \in Handlers :
    AsyncAcknowledged(h)
      => IF sub[h].error = NoError THEN AcceptedResponse(h)
         ELSE sub[h].resp.code = 500 /\ sub[h].resp.jobId = Absent

C15_Witness ==
  \E h \in Handlers :
    /\ AsyncAcknowledged(h)
    /\ sub[h].error = NoError
    /\ sub[h].resp.code = 202
    /\ jobs[sub[h].jobId].status = RUNNING

\* C16: every job whose stored status is SUCCEEDED has an imageUrl or an
\* outputKey in its record.
C16_SucceededHasResult ==
  \A id \in JobIds :
    jobs[id].status = SUCCEEDED
      => (jobs[id].imageUrl # Absent \/ jobs[id].outputKey # Absent)

\* C17: the job view get returns for a SUCCEEDED job carries a result
\* reference, and that reference is a presigned URL.
C17_ResultReferenceIsPresigned ==
  (getResp.view /\ getResp.status = SUCCEEDED) => getResp.imageUrl = "presigned"

\* C18: a get request, whatever it is answered with, leaves the Job Store and
\* the buckets as they are.
C18_GetIsReadOnly ==
  [][GetStep => UNCHANGED <<jobs, images, staged, invoked, dispatched>>]_vars

C18_Witness ==
  /\ getResp.code = 500
  /\ getResp.fault
  /\ getResp.exists
  /\ \E id \in JobIds : jobs[id].status = FAILED

\* C19: every record of the Job Store has an owner, createdAt and
\* inputParams, which only the submit handler writes.
C19_RecordsComeFromSubmit ==
  \A id \in JobIds :
    attribute_exists(jobs[id])
      => (/\ jobs[id].userId # Absent
          /\ jobs[id].createdAt # NoTime
          /\ jobs[id].inputParams # Absent)

\* C20: a POST request without claims is answered 403 'Access denied'
\* whatever its body is, and from the request to the end of the invocation
\* the handler writes nothing to the Job Store and invokes nothing.
C20_NoClaimsDenied ==
  /\ [][\A h \in Handlers :
          (StartStep(h) /\ ~sub'[h].authed /\ sub'[h].body \in Bodies)
            => (/\ sub'[h].pc = "done"
                /\ ~sub'[h].created
                /\ sub'[h].resp.code = 403
                /\ sub'[h].resp.error = "Access denied"
                /\ UNCHANGED <<jobs, staged, invoked, dispatched>>)]_vars
  /\ [][\A h \in Handlers :
          (ReturnStep(h) /\ ~sub[h].authed /\ sub[h].body \in Bodies)
            => (/\ sub'[h].pc = "idle"
                /\ UNCHANGED <<jobs, staged, invoked, dispatched>>)]_vars

C20_Witness ==
  \E h \in Handlers :
    /\ sub[h].pc = "done"
    /\ ~sub[h].authed
    /\ sub[h].body = "valid"
    /\ sub[h].resp.code = 403
    /\ sub[h].resp.error = "Access denied"

\* the step is a step of handler h
HandlerStep(h) == sub'[h] # sub[h]

\* C23: the handler sends no sync invocation to the worker pool while the
\* pool is at its concurrency limit; a sync submit that finds the pool at
\* its limit is answered with a capacity-exceeded response.
C23_PoolBoundRespected ==
  /\ [][\A h \in Handlers :
          (HandlerStep(h) /\ sub[h].mode = "sync" /\ invoked' # invoked)
            => ~sub'[h].poolFull]_vars
  /\ [](\A h \in Handlers :
          (sub[h].pc = "done" /\ sub[h].mode = "sync" /\ sub[h].poolFull)
            => sub[h].resp.code \in {429, 503})

\* C24: in the async path the input is staged only for a record this
\* invocation created, the invocation is sent only after the input was
\* staged, and RUNNING is written only after the invocation was acknowledged.
C24_AsyncStepOrder ==
  /\ [][\A h \in Handlers :
          (HandlerStep(h) /\ staged' # staged)
            => (/\ sub[h].created
                /\ attribute_exists(jobs[sub[h].jobId])
                /\ invoked[sub[h].jobId] = 0
                /\ staged' = staged \cup {sub[h].jobId})]_vars
  /\ [][\A h \in Handlers :
          (HandlerStep(h) /\ sub[h].mode = "async" /\ invoked' # invoked)
            => (/\ sub[h].created
                /\ sub[h].jobId \in staged
                /\ jobs[sub[h].jobId].status # RUNNING)]_vars
  /\ [][\A h \in Handlers :
          (/\ HandlerStep(h)
           /\ jobs' # jobs
           /\ \E id \in JobIds : jobs'[id].status = RUNNING)
            => (/\ sub[h].jobId \in staged
                /\ sub[h].jobId \in dispatched
                /\ invoked[sub[h].jobId] = 1)]_vars
  /\ [](\A h \in Handlers :
          /\ (sub[h].mode = "async" /\ sub[h].pc \in {"dispatch", "invokeAsync", "updateRunning"})
               => (sub[h].created /\ attribute_exists(jobs[sub[h].jobId]))
          /\ sub[h].pc = "invokeAsync"
               => (sub[h].jobId \in staged /\ invoked[sub[h].jobId] = 0)
          /\ sub[h].pc = "updateRunning"
               => (/\ sub[h].jobId \in staged
                   /\ sub[h].jobId \in dispatched
                   /\ invoked[sub[h].jobId] = 1))

C24_Witness ==
  \E h \in Handlers :
    /\ sub[h].pc = "done"
    /\ sub[h].mode = "async"
    /\ sub[h].created
    /\ sub[h].invokeFailed
    /\ sub[h].jobId \notin staged
    /\ invoked[sub[h].jobId] = 0
    /\ jobs[sub[h].jobId].status = FAILED

\* C26: when the callback handler returns, every record of the event has
\* been processed, whatever happened to the records before it.
C26_RecordsIndependent ==
  cb.pc = "returned" => cb.left = 0

\* the attributes written when the record is created
CreatedFields == {"jobId", "userId", "createdAt", "inputParams", "mode", "ttl"}

\* C28: once a record exists, no step changes its jobId, userId, createdAt,
\* inputParams, mode or ttl.
C28_CreatedFieldsImmutable ==
  [][\A id \in JobIds :
       attribute_exists(jobs[id])
         => \A f \in CreatedFields : jobs'[id][f] = jobs[id][f]]_vars

C28_Witness ==
  \E id \in JobIds, h \in Handlers :
    /\ jobs[id].status = FAILED
    /\ jobs[id].updatedAt > jobs[id].createdAt
    /\ jobs[id].userId = "alice"
    /\ sub[h].pc = "done"
    /\ sub[h].error.message = "Failed to create job"

\* C29: a record has an error only when its status is FAILED, and an
\* imageUrl or outputKey only when its status is SUCCEEDED.
C29_OutcomeFieldsAgree ==
  \A id \in JobIds :
    /\ jobs[id].error # Absent => jobs[id].status = FAILED
    /\ (jobs[id].imageUrl # Absent \/ jobs[id].outputKey # Absent)
         => jobs[id].status = SUCCEEDED

\* a request body has been validated
Validated == probe.kind = "validate" /\ probe.done

\* the issues the TypeScript handler reports for one field
FieldIssues(path) == {i \in probe.issues : i[1] = path}

\* v is an integer between lo and hi
IntegerIn(v, lo, hi) ==
  /\ v.t = "number"
  /\ v.n % 2 = 0
  /\ lo <= v.n \div 2
  /\ v.n \div 2 <= hi

\* v is an integer in [256, 1024] that 64 divides
DimensionOk(v) == IntegerIn(v, 256, 1024) /\ (v.n \div 2) % 64 = 0

Provided(v) == v.t # "undefined"

C30_ValidatorsAgree ==
  Validated => (probe.issues = {} <=> probe.errors = {})

\* the error is none of those errorResponse answers with 400, 403 or 404
Internal(error) ==
  error.name \notin {"ValidationError", "UnauthorizedError", "NotFoundError"}

\* C22: outside development mode two internal errors, whatever their
\* messages and causes, get the same response: status 500 and one fixed
\* message, with no field that carries the error's message or cause.
C22_InternalErrorsIndistinguishable ==
  (/\ probe.kind = "error"
   /\ probe.done
   /\ probe.nodeEnv # "development"
   /\ Internal(probe.e1)
   /\ Internal(probe.e2))
    => (/\ probe.r1 = probe.r2
        /\ probe.r1.statusCode = 500
        /\ DOMAIN probe.r1.body = {"error", "message"}
        /\ probe.r1.body.error = "Internal server error"
        /\ probe.r1.body.message = "An unexpected error occurred"
        /\ probe.log1 = [error |-> probe.e1.message,
                         cause |-> IF probe.e1.name = "InternalError"
                                   THEN probe.e1.cause ELSE Absent,
                         requestId |-> probe.requestId])

C22_Witness ==
  /\ probe.kind = "error"
  /\ probe.done
  /\ probe.nodeEnv = "production"
  /\ probe.e1.name = "InternalError"
  /\ probe.e2.name = "Error"
  /\ probe.e1.message # probe.e2.message
  /\ probe.e1.cause # probe.e2.cause
  /\ probe.r1 = probe.r2
  /\ probe.log1 # probe.log2

\* C27: a PENDING or RUNNING job gets exactly one hint, chosen by the whole
\* minutes since createdAt: below 2 the cold-start hint, 2 to 4 the
\* next-few-minutes hint, 5 or more the longer-than-expected hint; a
\* SUCCEEDED or FAILED job gets none.
C27_HintByElapsedMinutes ==
  (probe.kind = "hint" /\ probe.done) =>
    LET elapsed == probe.currentTime - probe.createdTime
        hint == probe.estimatedCompletion
    IN IF probe.status \in Terminal THEN hint = Absent
       ELSE /\ hint \in {ColdStartHint, FewMinutesHint, LongerHint}
            /\ hint = ColdStartHint <=> elapsed < 2 * 60000
            /\ hint = FewMinutesHint <=> (2 * 60000 <= elapsed /\ elapsed < 5 * 60000)
            /\ hint = LongerHint <=> elapsed >= 5 * 60000

C27_Witness ==
  /\ probe.kind = "hint"
  /\ probe.done
  /\ probe.status = RUNNING
  /\ probe.createdTime = 60000
  /\ probe.currentTime = 180000
  /\ probe.estimatedCompletion = FewMinutesHint

\* C25: when the deployed handler returns after the staging write or the
\* async invocation failed for a job it stored, the job is FAILED with the
\* error recorded, and the response is 500.
C25_DeployedDispatchFailureRecorded ==
  \A h \in Handlers :
    (/\ sub[h].pc = "done"
     /\ sub[h].created
     /\ sub[h].mode = "async"
     /\ sub[h].invokeFailed)
      => (/\ sub[h].resp.code = 500
          /\ jobs[sub[h].jobId].status = FAILED
          /\ jobs[sub[h].jobId].error # Absent)

====
